---- MODULE Spec2Model ----
(***************************************************************************)
(* Model of the SimpleAPI RCV sync endpoint (api/simple-rcv.js and its     *)
(* older two-call variant).  One invocation of the handler is a process;   *)
(* every await of the handler is a step boundary.  The datastore tables,   *)
(* the remote API and the clock are the environment.                       *)
(***************************************************************************)
EXTENDS Integers, Sequences, FiniteSets, TLC

\* ------------------------------------------------------------------ bounds

MaxRuns == 2
MaxVentas == 2
MaxCompras == 1
MaxFechas == 2
MaxFaults == 1
MaxRace == 1

\* ------------------------------------------------------- program constants

UF_FALLBACK == 38000

\* ------------------------------------------------------------------ values

Invocations == {1, 2}

Null == "null"
NoId == 0
NoMsg == "none"

EMITIDAS == "facturas_emitidas"
RECIBIDAS == "facturas_recibidas"
ORIGEN == "SimpleAPI"

MSG_SPLIT == "doc.fechaEmision?.split is not a function"
MSG_NULLDOC == "Cannot read properties of null (reading 'folio')"
MSG_NOBODY == "Cannot destructure property 'periodo' of 'req.body' as it is undefined"
MSG_REMOTE == "Error SimpleAPI"
MSG_DUPLICATE == "duplicate key value violates unique constraint"
MSG_INSERT == "insert failed"
MSG_LOOKUP == "lookup failed"
ZERO_ROWS == "PGRST116: the result contains 0 rows"
MANY_ROWS == "PGRST116: the result contains more than one row"

\* A JSON document of the remote API.  json = "null" is a null array element.
\* fechaEmision carries its JS type: only a string has a split method.
Fecha(type, date) == [type |-> type, date |-> date]

Doc(folio, razon, rutC, rutP, fecha, monto, estado, tipo) ==
    [json |-> "object", folio |-> folio, razonSocial |-> razon, rutCliente |-> rutC,
     rutProveedor |-> rutP, fechaEmision |-> fecha, montoTotal |-> monto,
     estado |-> estado, tipoDTE |-> tipo]

docA == Doc(1, "Acme SpA", "76.111.111-1", "76.111.111-1",
            Fecha("string", "2026-01-05"), 76000, "Vigente", 33)
docA2 == Doc(1, Null, "77.222.222-2", "77.222.222-2",
             Fecha("undefined", ""), 57000, Null, 34)
docB == Doc(2, "Beta Ltda", "78.333.333-3", "78.333.333-3",
            Fecha("number", ""), 19000, "Vigente", 33)
docNull == [json |-> "null", folio |-> 0, razonSocial |-> Null, rutCliente |-> Null,
            rutProveedor |-> Null, fechaEmision |-> Fecha("undefined", ""),
            montoTotal |-> 0, estado |-> Null, tipoDTE |-> 0]

DocPool == {docA, docA2, docB, docNull}
RacePool == {docA, docA2}

RECURSIVE SeqsUpTo(_, _)
SeqsUpTo(S, n) ==
    IF n = 0 THEN {<<>>}
    ELSE LET shorter == SeqsUpTo(S, n - 1)
         IN  shorter \cup {Append(s, x) : s \in {t \in shorter : Len(t) = n - 1}, x \in S}

\* ------------------------------------------------------------ request input

Methods == {"POST", "GET", "OPTIONS"}

PERIODO_OK == <<"2", "0", "2", "6", "-", "0", "1">>
PERIODO_SHORT == <<"2", "0", "2", "6", "-", "1">>
PERIODO_ALPHA == <<"2", "0", "2", "6", "-", "0", "x">>
PERIODO_EMPTY == <<>>

Digits == {"0", "1", "2", "3", "4", "5", "6", "7", "8", "9"}

\* req.body: absent altogether, or an object whose periodo may be absent.
Body(present, hasPeriodo, periodo) ==
    [present |-> present, hasPeriodo |-> hasPeriodo, periodo |-> periodo]

Bodies ==
    {Body(FALSE, FALSE, <<>>), Body(TRUE, FALSE, <<>>)}
        \cup {Body(TRUE, TRUE, s) :
                s \in {PERIODO_OK, PERIODO_SHORT, PERIODO_ALPHA, PERIODO_EMPTY}}

\* /^\d{4}-\d{2}$/.test(periodo)
PeriodoRegex(s) ==
    /\ Len(s) = 7
    /\ \A k \in {1, 2, 3, 4, 6, 7} : s[k] \in Digits
    /\ s[5] = "-"

\* !periodo || !regex.test(periodo)
PeriodoInvalido(body) ==
    \/ ~body.hasPeriodo
    \/ body.periodo = <<>>
    \/ ~PeriodoRegex(body.periodo)

\* ------------------------------------------------------------ pure helpers

\* Math.round((montoTotal / ufActual) * 100) / 100, kept in hundredths.
MontoUF(monto, uf) == (2 * 100 * monto + uf) \div (2 * uf)

\* doc.fechaEmision?.split('T')[0] || null ; a non-string truthy value throws.
FechaThrows(doc) == doc.fechaEmision.type = "number"

FechaEmision(doc) ==
    IF doc.fechaEmision.type = "string" /\ doc.fechaEmision.date # ""
    THEN doc.fechaEmision.date
    ELSE Null

OrDefault(v, d) == IF v = Null \/ v = "" THEN d ELSE v

FacturaEmitida(doc, uf, now) ==
    [numero_folio |-> doc.folio,
     cliente |-> OrDefault(doc.razonSocial, "Cliente"),
     rut_cliente |-> doc.rutCliente,
     fecha_emision |-> FechaEmision(doc),
     monto_clp |-> doc.montoTotal,
     monto_uf |-> MontoUF(doc.montoTotal, uf),
     estado |-> OrDefault(doc.estado, "Emitida"),
     origen |-> ORIGEN,
     tipo_documento |-> doc.tipoDTE,
     actualizado_sii |-> now]

FacturaRecibida(doc, uf, now) ==
    [numero_folio |-> doc.folio,
     proveedor |-> OrDefault(doc.razonSocial, "Proveedor"),
     rut_proveedor |-> doc.rutProveedor,
     fecha_emision |-> FechaEmision(doc),
     monto_clp |-> doc.montoTotal,
     monto_uf |-> MontoUF(doc.montoTotal, uf),
     estado |-> OrDefault(doc.estado, "Recibida"),
     origen |-> ORIGEN,
     tipo_documento |-> doc.tipoDTE,
     categoria |-> "Servicios",
     actualizado_sii |-> now]

Factura(tabla, doc, uf, now) ==
    IF tabla = EMITIDAS THEN FacturaEmitida(doc, uf, now)
    ELSE FacturaRecibida(doc, uf, now)

\* ---------------------------------------------------------------- datastore

\* A table is the sequence of its rows; a row's id is its position.
Matches(rows, folio) ==
    {id \in DOMAIN rows : rows[id].numero_folio = folio /\ rows[id].origen = ORIGEN}

\* .select('id').eq('numero_folio', folio).eq('origen', 'SimpleAPI').single()
\* single() answers an error and no data unless exactly one row matches.
Single(rows, folio, fault) ==
    LET m == Matches(rows, folio)
    IN  IF fault THEN [data |-> NoId, error |-> MSG_LOOKUP]
        ELSE IF Cardinality(m) = 1
             THEN [data |-> CHOOSE id \in m : TRUE, error |-> NoMsg]
             ELSE IF m = {} THEN [data |-> NoId, error |-> ZERO_ROWS]
             ELSE [data |-> NoId, error |-> MANY_ROWS]

\* Update as it would be if the whole mapped row were written back.
UpdateWholeRow(rows, id, factura) == [rows EXCEPT ![id] = factura]

\* .update({monto_clp, monto_uf, actualizado_sii}).eq('id', existe.id)
Update(rows, id, factura) ==
    [rows EXCEPT ![id] = [@ EXCEPT !.monto_clp = factura.monto_clp,
                                   !.monto_uf = factura.monto_uf,
                                   !.actualizado_sii = factura.actualizado_sii]]

\* The error of .insert([factura]): the request fails, or the datastore
\* enforces the natural key and the key is taken.
InsertError(rows, factura, unique, fault) ==
    IF fault THEN MSG_INSERT
    ELSE IF unique /\ Matches(rows, factura.numero_folio) # {} THEN MSG_DUPLICATE
    ELSE NoMsg

\* uf_valores: .select('valor').order('fecha', {ascending: false}).limit(1).single()
UltimoValor(serie, fault) ==
    IF fault \/ serie = {} THEN [present |-> FALSE, valor |-> 0]
    ELSE LET last == CHOOSE r \in serie : \A o \in serie : o.fecha <= r.fecha
         IN  [present |-> TRUE, valor |-> last.valor]

\* getUFActual as it would be with ?? in place of ||.
getUFActualNullish(serie, fault) ==
    LET data == UltimoValor(serie, fault)
    IN  IF data.present THEN data.valor ELSE UF_FALLBACK

\* return data?.valor || 38000
getUFActual(serie, fault) ==
    LET data == UltimoValor(serie, fault)
    IN  IF data.present /\ data.valor # 0 THEN data.valor ELSE UF_FALLBACK

\* -------------------------------------------------------------------- state

VARIABLES
    inv,            \* per invocation: the handler's locals and its position
    facturas,       \* facturas_emitidas and facturas_recibidas
    sii_sync_log,   \* the audit table
    uf_valores,     \* the reference-rate series
    uniqueKey,      \* the datastore enforces (numero_folio, origen) as a key
    variante,       \* which handler file is deployed
    overlapping,    \* the platform dispatches overlapping invocations
    now,            \* the clock read by new Date()
    runs,           \* requests received so far
    faults,         \* datastore requests that failed so far
    trace,          \* per invocation: the outbound calls of the current request
    snap            \* per invocation: the tables as the current request found them

vars == <<inv, facturas, sii_sync_log, uf_valores, uniqueKey, variante,
          overlapping, now, runs, faults, trace, snap>>

ZeroRes == [nuevos |-> 0, actualizados |-> 0, errores |-> <<>>]

NoLookup == [data |-> NoId, error |-> NoMsg]

Summary(total, r) ==
    [total |-> total, nuevas |-> r.nuevos, actualizadas |-> r.actualizados,
     errores |-> r.errores]

NoRes ==
    [status |-> 0, error |-> NoMsg, uf_utilizada |-> 0,
     emitidas |-> Summary(0, ZeroRes), recibidas |-> Summary(0, ZeroRes)]

ErrorRes(status, msg) == [NoRes EXCEPT !.status = status, !.error = msg]

Fresh(method, body) ==
    [pc |-> "idle", method |-> method, body |-> body, ufActual |-> 0,
     ventas |-> <<>>, compras |-> <<>>, tabla |-> EMITIDAS, i |-> 0, ts |-> 0,
     existe |-> NoLookup, cur |-> ZeroRes,
     resultadoEmitidas |-> ZeroRes, resultadoRecibidas |-> ZeroRes, res |-> NoRes]

Event(op, on, k) == [op |-> op, on |-> on, k |-> k]

ManualRow ==
    [numero_folio |-> 1, cliente |-> "Acme SpA", rut_cliente |-> "76.111.111-1",
     fecha_emision |-> "2025-12-30", monto_clp |-> 50000, monto_uf |-> 132,
     estado |-> "Pagada", origen |-> "Manual", tipo_documento |-> 33,
     actualizado_sii |-> 0]

SerieFija == {[fecha |-> 1, valor |-> 40000], [fecha |-> 2, valor |-> 19000]}

Series ==
    UNION {[F -> {0, 19000, 40000}] : F \in SUBSET (1..MaxFechas)}

AsRows(f) == {[fecha |-> d, valor |-> f[d]] : d \in DOMAIN f}

InitCommon ==
    /\ inv = [p \in Invocations |-> Fresh("POST", Body(FALSE, FALSE, <<>>))]
    /\ facturas = [t \in {EMITIDAS, RECIBIDAS} |->
                     IF t = EMITIDAS THEN <<ManualRow>> ELSE <<>>]
    /\ sii_sync_log = <<>>
    /\ uniqueKey \in BOOLEAN
    /\ variante \in {"combined", "split"}
    /\ now = 0
    /\ runs = 0
    /\ faults = 0
    /\ trace = [p \in Invocations |-> <<>>]
    /\ snap = [p \in Invocations |-> [facturas |-> facturas, log |-> 0, faults |-> 0]]

Init ==
    /\ InitCommon
    /\ overlapping = FALSE
    /\ uf_valores = SerieFija

\* ------------------------------------------------------------------ control

Batch(l) == IF l.tabla = EMITIDAS THEN l.ventas ELSE l.compras

\* Entering procesarFacturasEmitidas / procesarFacturasRecibidas.
Procesar(l, tabla) ==
    [l EXCEPT !.pc = "procesar", !.tabla = tabla, !.i = 1, !.cur = ZeroRes]

\* if (comprasArray.length > 0) { procesarFacturasRecibidas ... } return res.status(200)
AfterEmitidasCombined(l) ==
    IF Len(l.compras) > 0 THEN Procesar(l, RECIBIDAS) ELSE [l EXCEPT !.pc = "responder"]

\* What follows the outgoing side: the incoming side, or first its own fetch.
AfterEmitidas(l, v) ==
    IF v = "combined" THEN AfterEmitidasCombined(l)
    ELSE [l EXCEPT !.pc = "consultarCompras"]

\* AfterVentas as it would be if an empty outgoing array ended the request.
AfterVentasEarlyReturn(l, v) ==
    IF Len(l.ventas) > 0 THEN Procesar(l, EMITIDAS) ELSE [l EXCEPT !.pc = "responder"]

\* if (ventasArray.length > 0) { procesarFacturasEmitidas ... }
AfterVentas(l, v) ==
    IF Len(l.ventas) > 0 THEN Procesar(l, EMITIDAS) ELSE AfterEmitidas(l, v)

\* if (compras.length > 0) { procesarFacturasRecibidas ... }
AfterCompras(l) ==
    IF Len(l.compras) > 0 THEN Procesar(l, RECIBIDAS) ELSE [l EXCEPT !.pc = "responder"]

\* The for loop's next iteration, or the return of { nuevos, actualizados, errores }.
NextDoc(l) ==
    IF l.i < Len(Batch(l)) THEN [l EXCEPT !.pc = "procesar", !.i = l.i + 1]
    ELSE IF l.tabla = EMITIDAS
         THEN [l EXCEPT !.pc = "registrarSync", !.resultadoEmitidas = l.cur]
         ELSE [l EXCEPT !.pc = "registrarSync", !.resultadoRecibidas = l.cur]

\* catch (error) { return res.status(500).json({ success: false, error: error.message }) }
Fail(l, msg) == [l EXCEPT !.pc = "done", !.res = ErrorRes(500, msg)]

Idle(p) == inv[p].pc \in {"idle", "done"}

\* The locals of invocation p become l after the outbound calls evs; a
\* response, when one was sent, is the last event of the request.
Step(p, l, evs) ==
    /\ inv' = [inv EXCEPT ![p] = l]
    /\ trace' = [trace EXCEPT ![p] =
                    @ \o evs \o (IF l.pc = "done"
                                 THEN <<Event("respond", "http", l.res.status)>>
                                 ELSE <<>>)]

\* ------------------------------------------------------------------ handler

\* The handler up to its first await: the method and periodo checks.
Validate(l) ==
    IF l.method = "OPTIONS" THEN [l EXCEPT !.pc = "done", !.res = ErrorRes(200, NoMsg)]
    ELSE IF l.method # "POST"
         THEN [l EXCEPT !.pc = "done", !.res = ErrorRes(405, "Metodo no permitido")]
    ELSE IF ~l.body.present THEN Fail(l, MSG_NOBODY)
    ELSE IF PeriodoInvalido(l.body)
         THEN [l EXCEPT !.pc = "done",
                        !.res = ErrorRes(400, "Parametro periodo requerido")]
    ELSE [l EXCEPT !.pc = "getUFActual"]

Receive(p) ==
    /\ Idle(p)
    /\ runs < MaxRuns
    /\ overlapping \/ \A q \in Invocations : Idle(q)
    /\ \A q \in Invocations : q < p => ~Idle(q)
    /\ \E m \in Methods, b \in Bodies :
          /\ inv' = [inv EXCEPT ![p] = Validate(Fresh(m, b))]
          /\ trace' = [trace EXCEPT ![p] =
                          IF inv'[p].pc = "done"
                          THEN <<Event("respond", "http", inv'[p].res.status)>>
                          ELSE <<>>]
    /\ snap' = [snap EXCEPT ![p] = [facturas |-> facturas, log |-> Len(sii_sync_log),
                                     faults |-> faults]]
    /\ now' = now + 1
    /\ runs' = runs + 1
    /\ UNCHANGED <<facturas, sii_sync_log, uf_valores, uniqueKey, variante,
                   overlapping, faults>>

\* The outcomes a datastore request can have: it may fail while failures remain.
Faulty == IF faults < MaxFaults THEN BOOLEAN ELSE {FALSE}

Count(fault) == faults' = IF fault THEN faults + 1 ELSE faults

\* const ufActual = await getUFActual();
GetUFActual(p) ==
    /\ inv[p].pc = "getUFActual"
    /\ \E fault \in Faulty :
          /\ Count(fault)
          /\ Step(p, [inv[p] EXCEPT !.ufActual = getUFActual(uf_valores, fault),
                                 !.pc = IF variante = "combined" THEN "consultarRCV"
                                        ELSE "consultarVentas"],
               <<Event("select", "uf_valores", 0)>>)
    /\ UNCHANGED <<facturas, sii_sync_log, uf_valores, uniqueKey, variante,
                   overlapping, now, runs, snap>>

\* The arrays the remote API may answer.  Overlapping invocations are explored
\* over the documents of one folio.
VentasBatches ==
    IF overlapping THEN SeqsUpTo(RacePool, MaxRace) ELSE SeqsUpTo(DocPool, MaxVentas)
ComprasBatches ==
    IF overlapping THEN SeqsUpTo(RacePool, MaxRace) ELSE SeqsUpTo(DocPool, MaxCompras)

\* const rcv = await consultarRCV(mes, año, credentials);   (combined variant)
ConsultarRCV(p) ==
    /\ inv[p].pc = "consultarRCV"
    /\ \/ Step(p, Fail(inv[p], MSG_REMOTE), <<Event("fetch", "rcv", 0)>>)
       \/ \E v \in VentasBatches, c \in ComprasBatches :
             Step(p, AfterVentas([inv[p] EXCEPT !.ventas = v, !.compras = c], variante),
                  <<Event("fetch", "rcv", 0)>>)
    /\ UNCHANGED <<facturas, sii_sync_log, uf_valores, uniqueKey, variante,
                   overlapping, now, runs, faults, snap>>

\* const ventas = await consultarVentas(mes, año, credentials);   (two-call variant)
ConsultarVentas(p) ==
    /\ inv[p].pc = "consultarVentas"
    /\ \/ Step(p, Fail(inv[p], MSG_REMOTE), <<Event("fetch", "ventas", 0)>>)
       \/ \E v \in VentasBatches :
             Step(p, AfterVentas([inv[p] EXCEPT !.ventas = v], variante),
                  <<Event("fetch", "ventas", 0)>>)
    /\ UNCHANGED <<facturas, sii_sync_log, uf_valores, uniqueKey, variante,
                   overlapping, now, runs, faults, snap>>

\* const compras = await consultarCompras(mes, año, credentials);   (two-call variant)
ConsultarCompras(p) ==
    /\ inv[p].pc = "consultarCompras"
    /\ \/ Step(p, Fail(inv[p], MSG_REMOTE), <<Event("fetch", "compras", 0)>>)
       \/ \E c \in ComprasBatches :
             Step(p, AfterCompras([inv[p] EXCEPT !.compras = c]),
                  <<Event("fetch", "compras", 0)>>)
    /\ UNCHANGED <<facturas, sii_sync_log, uf_valores, uniqueKey, variante,
                   overlapping, now, runs, faults, snap>>

\* ---------------------------------------------------------------- reconciler

\* PushError as it would be if the error string were pushed twice.
PushErrorDoble(l, folio, msg) ==
    [l EXCEPT !.cur.errores = Append(Append(@, [folio |-> folio, message |-> msg]),
                                     [folio |-> folio, message |-> msg])]

\* errores.push(`Folio ${doc.folio}: ${error.message}`)
PushError(l, folio, msg) ==
    [l EXCEPT !.cur.errores = Append(@, [folio |-> folio, message |-> msg])]

\* One iteration up to its first await: build factura, then the lookup.
\* A null document throws while factura is built and again in the catch block,
\* which reads doc.folio; that second exception leaves the function.
ProcesarDoc(p) ==
    /\ inv[p].pc = "procesar"
    /\ LET l == inv[p]
           doc == Batch(l)[l.i]
       IN  IF doc.json = "null"
           THEN Step(p, Fail(l, MSG_NULLDOC), <<>>) /\ UNCHANGED faults
           ELSE IF FechaThrows(doc)
                THEN /\ Step(p, NextDoc(PushError(l, doc.folio, MSG_SPLIT)), <<>>)
                     /\ UNCHANGED faults
           ELSE \E fault \in Faulty :
                  /\ Count(fault)
                  /\ Step(p, [l EXCEPT !.pc = "escribir", !.ts = now,
                                       !.existe = Single(facturas[l.tabla], doc.folio,
                                                         fault)],
                          <<Event("select", l.tabla, l.i)>>)
    /\ UNCHANGED <<facturas, sii_sync_log, uf_valores, uniqueKey, variante,
                   overlapping, now, runs, snap>>

\* Actualizar as it would be if the update branch counted a new row.
ActualizarComoNuevo(l) == [l EXCEPT !.cur.nuevos = @ + 1]

\* if (existe) { update ...; actualizados++ }
Actualizar(l) == [l EXCEPT !.cur.actualizados = @ + 1]

\* Insertado as it would be if nuevos++ were not under the else.
InsertadoSiempreCuenta(l, folio, error) ==
    IF error # NoMsg THEN [PushError(l, folio, error) EXCEPT !.cur.nuevos = @ + 1]
    ELSE [l EXCEPT !.cur.nuevos = @ + 1]

\* const { error } = insert; if (error) errores.push(...) else nuevos++
Insertado(l, folio, error) ==
    IF error # NoMsg THEN PushError(l, folio, error)
    ELSE [l EXCEPT !.cur.nuevos = @ + 1]

\* The rest of the iteration: the update of the row found, or the insert.
Escribir(p) ==
    /\ inv[p].pc = "escribir"
    /\ LET l == inv[p]
           doc == Batch(l)[l.i]
           factura == Factura(l.tabla, doc, l.ufActual, l.ts)
           rows == facturas[l.tabla]
       IN  IF l.existe.data # NoId
           THEN /\ facturas' = [facturas EXCEPT ![l.tabla] =
                                   Update(rows, l.existe.data, factura)]
                /\ Step(p, NextDoc(Actualizar(l)), <<Event("update", l.tabla, l.i)>>)
                /\ UNCHANGED faults
           ELSE \E fault \in Faulty :
                  LET error == InsertError(rows, factura, uniqueKey, fault)
                  IN  /\ Count(fault)
                      /\ facturas' = [facturas EXCEPT ![l.tabla] =
                                         IF error = NoMsg THEN Append(rows, factura)
                                         ELSE rows]
                      /\ Step(p, NextDoc(Insertado(l, doc.folio, error)),
                              <<Event("insert", l.tabla, l.i)>>)
    /\ UNCHANGED <<sii_sync_log, uf_valores, uniqueKey, variante, overlapping,
                   now, runs, snap>>

\* ------------------------------------------------------------- audit logger

\* SyncRow as it would be if estado did not depend on the errors.
SyncRowSiempreExitoso(tipo, periodo, resultado) ==
    [tipo_sync |-> tipo,
     periodo |-> periodo,
     documentos_nuevos |-> resultado.nuevos,
     documentos_actualizados |-> resultado.actualizados,
     errores |-> IF Len(resultado.errores) > 0
                 THEN [null |-> FALSE, joined |-> resultado.errores]
                 ELSE [null |-> TRUE, joined |-> <<>>],
     estado |-> "exitoso"]

\* The row registrarSync inserts; errores is the joined strings, or null.
SyncRow(tipo, periodo, resultado) ==
    [tipo_sync |-> tipo,
     periodo |-> periodo,
     documentos_nuevos |-> resultado.nuevos,
     documentos_actualizados |-> resultado.actualizados,
     errores |-> IF Len(resultado.errores) > 0
                 THEN [null |-> FALSE, joined |-> resultado.errores]
                 ELSE [null |-> TRUE, joined |-> <<>>],
     estado |-> IF Len(resultado.errores) > 0 THEN "parcial" ELSE "exitoso"]

\* await registrarSync(tipo, periodo, resultado, userEmail), then the next side.
RegistrarSync(p) ==
    /\ inv[p].pc = "registrarSync"
    /\ LET l == inv[p]
       IN  /\ sii_sync_log' = Append(sii_sync_log, SyncRow(l.tabla, l.body.periodo, l.cur))
           /\ Step(p, IF l.tabla = EMITIDAS THEN AfterEmitidas(l, variante)
                       ELSE [l EXCEPT !.pc = "responder"],
                   <<Event("log", l.tabla, 0)>>)
    /\ UNCHANGED <<facturas, uf_valores, uniqueKey, variante, overlapping,
                   now, runs, faults, snap>>

\* return res.status(200).json({ success: true, ... })
Respuesta(l) ==
    [status |-> 200, error |-> NoMsg, uf_utilizada |-> l.ufActual,
     emitidas |-> Summary(Len(l.ventas), l.resultadoEmitidas),
     recibidas |-> Summary(Len(l.compras), l.resultadoRecibidas)]

Responder(p) ==
    /\ inv[p].pc = "responder"
    /\ Step(p, [inv[p] EXCEPT !.pc = "done", !.res = Respuesta(inv[p])], <<>>)
    /\ UNCHANGED <<facturas, sii_sync_log, uf_valores, uniqueKey, variante,
                   overlapping, now, runs, faults, snap>>

Next ==
    \E p \in Invocations :
        \/ Receive(p)
        \/ GetUFActual(p)
        \/ ConsultarRCV(p)
        \/ ConsultarVentas(p)
        \/ ConsultarCompras(p)
        \/ ProcesarDoc(p)
        \/ Escribir(p)
        \/ RegistrarSync(p)
        \/ Responder(p)

Spec == Init /\ [][Next]_vars

\* The same handler when the platform lets invocations overlap.
InitOverlap ==
    /\ InitCommon
    /\ overlapping = TRUE
    /\ uf_valores = SerieFija

SpecOverlap == InitOverlap /\ [][Next]_vars

\* The handler up to the end of getUFActual, over every reference-rate series.
InitUF ==
    /\ InitCommon
    /\ overlapping = FALSE
    /\ uf_valores \in {AsRows(f) : f \in Series}

NextUF == \E p \in Invocations : Receive(p) \/ GetUFActual(p)

SpecUF == InitUF /\ [][NextUF]_vars

\* ------------------------------------------------------------------- claims

Tablas == {EMITIDAS, RECIBIDAS}

Done(p) == inv[p].pc = "done"

\* The outbound calls of the current request of p (its response left out).
Calls(p) == SelectSeq(trace[p], LAMBDA e : e.op # "respond")

\* The rows of table t holding folio f with origin 'SimpleAPI'.
RowsOf(rows, f) ==
    {id \in 1..Len(rows) : rows[id].numero_folio = f /\ rows[id].origen = "SimpleAPI"}

\* C1: no invoice table ever holds two rows with the same folio and origin
\* 'SimpleAPI', whatever the batches and whatever lookups fail.
C1_AtMostOneRowPerFolio ==
    \A t \in Tablas : \A a, b \in 1..Len(facturas[t]) :
        (/\ facturas[t][a].origen = "SimpleAPI"
         /\ facturas[t][b].origen = "SimpleAPI"
         /\ facturas[t][a].numero_folio = facturas[t][b].numero_folio) => a = b

\* C2: a request answered 500 because a remote fetch was not successful has
\* inserted or updated no invoice row and written no audit row.
C2_FetchFailureWritesNothing ==
    \A p \in Invocations :
        (Done(p) /\ inv[p].res.status = 500 /\ inv[p].res.error = MSG_REMOTE) =>
            /\ facturas = snap[p].facturas
            /\ Len(sii_sync_log) = snap[p].log
            /\ \A k \in 1..Len(trace[p]) : trace[p][k].op \notin {"insert", "update", "log"}

\* C3: no document ends the run: a request is never answered 500 because
\* of a document, and in every 200 response each document of either batch
\* left exactly one outcome (new, updated or one error string).
C3_OneBadRecordNeverAborts ==
    \A p \in Invocations :
        /\ inv[p].res.error # MSG_NULLDOC
        /\ (Done(p) /\ inv[p].res.status = 200) =>
              /\ inv[p].res.emitidas.nuevas + inv[p].res.emitidas.actualizadas
                    + Len(inv[p].res.emitidas.errores) = Len(inv[p].ventas)
              /\ inv[p].res.recibidas.nuevas + inv[p].res.recibidas.actualizadas
                    + Len(inv[p].res.recibidas.errores) = Len(inv[p].compras)

\* ^\d{4}-\d{2}$ read off the claim: seven characters, digits around a dash.
MatchesYYYYMM(s) ==
    /\ Len(s) = 7
    /\ s[5] = "-"
    /\ \A k \in (1..4) \cup {6, 7} : s[k] \in Digits

\* C4: a method other than POST or OPTIONS is answered 405, a POST with no
\* body, no periodo or a periodo not of the form YYYY-MM is answered 400, and
\* neither issues a rate lookup, a remote fetch or a datastore read or write.
C4_ValidationBeforeNetwork ==
    \A p \in Invocations :
        LET l == inv[p]
            badPeriodo == \/ ~l.body.present
                          \/ ~l.body.hasPeriodo
                          \/ ~MatchesYYYYMM(l.body.periodo)
        IN  l.pc # "idle" =>
              /\ l.method \notin {"POST", "OPTIONS"} =>
                    l.res.status = 405 /\ Calls(p) = <<>>
              /\ (l.method = "POST" /\ badPeriodo) =>
                    l.res.status = 400 /\ Calls(p) = <<>>

\* The columns of a row that identify it rather than measure it.
IdentityOf(t, r) ==
    IF t = EMITIDAS
    THEN <<r.numero_folio, r.cliente, r.rut_cliente, r.fecha_emision, r.estado,
           r.origen, r.tipo_documento>>
    ELSE <<r.numero_folio, r.proveedor, r.rut_proveedor, r.fecha_emision, r.estado,
           r.origen, r.tipo_documento, r.categoria>>

CleanSingle(p) ==
    /\ Done(p)
    /\ inv[p].res.status = 200
    /\ Len(inv[p].ventas) = 1
    /\ inv[p].ventas[1].fechaEmision.type \in {"string", "undefined"}
    /\ faults = snap[p].faults

Written(p) == SubSeq(sii_sync_log, snap[p].log + 1, Len(sii_sync_log))

WrittenOf(p, tipo) ==
    Cardinality({k \in 1..Len(Written(p)) : Written(p)[k].tipo_sync = tipo})

IsLatest(r) == r \in uf_valores /\ \A o \in uf_valores : o.fecha <= r.fecha

\* The step of p that ends getUFActual.
RateStep(p) == inv[p].pc = "getUFActual" /\ inv'[p].pc # "getUFActual"

\* C9 as stated: the lookup returns the rate of the most recent date, and
\* 38000 when the series is empty or the lookup fails; the rate is never zero.
C9_LatestRateOrFallback ==
    [][\A p \in Invocations :
         RateStep(p) =>
            /\ inv'[p].ufActual # 0
            /\ IF faults' = faults /\ uf_valores # {}
               THEN \E r \in uf_valores : IsLatest(r) /\ inv'[p].ufActual = r.valor
               ELSE inv'[p].ufActual = 38000]_vars

\* C9 amended: the lookup returns the rate of the most recent date when that
\* rate is not zero, and 38000 when the series is empty, the lookup fails or
\* the most recent rate is zero; the rate is never zero.
C9_LatestNonZeroRateOrFallback ==
    [][\A p \in Invocations :
         RateStep(p) =>
            /\ inv'[p].ufActual # 0
            /\ IF /\ faults' = faults
                  /\ \E r \in uf_valores : IsLatest(r) /\ r.valor # 0
               THEN \E r \in uf_valores : IsLatest(r) /\ inv'[p].ufActual = r.valor
               ELSE inv'[p].ufActual = 38000]_vars

\* C9 witness: the lookup succeeded on a series whose most recent rate is
\* zero and whose older rate is not, and the fallback was returned.
C9_Witness ==
    \E p \in Invocations :
        /\ inv[p].pc \in {"consultarRCV", "consultarVentas"}
        /\ faults = 0
        /\ \E r \in uf_valores : IsLatest(r) /\ r.valor = 0
        /\ \E r \in uf_valores : r.valor = 19000
        /\ inv[p].ufActual = 38000

\* The place of an outbound call in the handler's sequence of steps.
Phase(e) ==
    IF e.op = "respond" THEN 5
    ELSE IF e.on = "uf_valores" THEN 1
    ELSE IF e.op = "fetch" THEN 2
    ELSE IF e.on = "facturas_emitidas" THEN 3
    ELSE 4

\* C10: the calls of one request come in the order rate lookup, remote
\* fetches, outgoing documents in array order then their audit row, incoming
\* documents in array order then their audit row, response; in particular no
\* remote fetch follows an invoice write, and the response is last.
C10_FixedStepOrder ==
    \A p \in Invocations : \A a, b \in 1..Len(trace[p]) :
        a < b =>
            /\ Phase(trace[p][a]) <= Phase(trace[p][b])
            /\ trace[p][a].op # "respond"
            /\ (Phase(trace[p][a]) = Phase(trace[p][b]) /\ Phase(trace[p][a]) \in {3, 4}) =>
                  /\ trace[p][a].op # "log"
                  /\ trace[p][b].op # "log" => trace[p][a].k <= trace[p][b].k

\* Both invocations have answered a request whose only document was of folio
\* f, and the lookup of each found no row of that folio.
RaceDone(f) ==
    \A p \in Invocations :
        /\ Done(p) /\ inv[p].res.status = 200
        /\ Len(inv[p].ventas) = 1 /\ inv[p].ventas[1].folio = f
        /\ inv[p].compras = <<>>
        /\ inv[p].existe.error = ZERO_ROWS

Inserted(p) ==
    inv[p].res.emitidas.nuevas = 1 /\ inv[p].res.emitidas.errores = <<>>

Refused(p, msg) ==
    /\ inv[p].res.emitidas.nuevas = 0
    /\ Len(inv[p].res.emitidas.errores) = 1
    /\ inv[p].res.emitidas.errores[1].message = msg

RaceRows(f) == Cardinality(RowsOf(facturas[EMITIDAS], f))

\* Two rows where duplicates are allowed; one row and one error string, of
\* the invocation that inserted second, where they are rejected.
TwoRowsOrSecondError(f) ==
    \/ /\ ~uniqueKey
       /\ RaceRows(f) = 2
       /\ \A p \in Invocations : Inserted(p)
    \/ /\ uniqueKey
       /\ RaceRows(f) = 1
       /\ \E p, q \in Invocations : p # q /\ Inserted(p) /\ Refused(q, MSG_DUPLICATE)

\* C5 as stated: when two overlapping invocations both look up the same new
\* folio, find nothing and attempt the insert, the folio ends with two rows
\* (duplicates allowed) or with one row and an error string of the second
\* invocation (duplicate rejected), and with nothing else.
C5_RaceOutcomes ==
    \A f \in {1, 2} : RaceDone(f) => TwoRowsOrSecondError(f)

\* C5 amended: ... or, when an insert fails for a reason other than the
\* duplicate, with no row added by that invocation and its error string
\* recorded; each invocation either added its row or recorded one error
\* string, and nothing else is reachable for that folio.
C5_RaceOutcomesOrInsertFailure ==
    \A f \in {1, 2} :
        RaceDone(f) =>
            LET ok == {p \in Invocations : Inserted(p)}
                dup == {p \in Invocations : Refused(p, MSG_DUPLICATE)}
                failed == {p \in Invocations : Refused(p, MSG_INSERT)}
            IN  /\ ok \cup dup \cup failed = Invocations
                /\ RaceRows(f) = Cardinality(ok)
                /\ dup # {} => uniqueKey /\ Cardinality(ok) = 1
                /\ failed = {} => TwoRowsOrSecondError(f)

\* C5 witness: both invocations found no row of folio 1 and both inserted;
\* the datastore refused the second insert, which left one row and one error.
C5_Witness ==
    /\ RaceDone(1)
    /\ uniqueKey
    /\ RaceRows(1) = 1
    /\ \E p, q \in Invocations : p # q /\ Inserted(p) /\ Refused(q, MSG_DUPLICATE)

\* Both outcomes of the race the claim names are reachable: this is the other.
C5_TwoRowsReached ==
    RaceDone(1) /\ ~uniqueKey /\ RaceRows(1) = 2

\* The side of a response that an audit row of tipo_sync t reports on.
SideOf(res, t) == IF t = EMITIDAS THEN res.emitidas ELSE res.recibidas

\* C11: every audit row has status 'parcial' iff its error field is not null
\* and 'exitoso' otherwise; and each audit row written by a request answered
\* 200 has status 'parcial' iff the response's summary of the same side has at
\* least one error string, a null error field iff that summary has none, the
\* summary's error strings joined otherwise, and new/updated counts equal to
\* the summary's nuevas/actualizadas.
C11_AuditRowMirrorsSummary ==
    /\ \A k \in 1..Len(sii_sync_log) :
          /\ sii_sync_log[k].estado \in {"parcial", "exitoso"}
          /\ sii_sync_log[k].estado = "parcial" <=> ~sii_sync_log[k].errores.null
          /\ sii_sync_log[k].errores.null <=> sii_sync_log[k].errores.joined = <<>>
    /\ \A p \in Invocations :
          (Done(p) /\ inv[p].res.status = 200) =>
              \A k \in 1..Len(Written(p)) :
                  LET row == Written(p)[k]
                      side == SideOf(inv[p].res, row.tipo_sync)
                  IN  /\ row.estado = "parcial" <=> Len(side.errores) > 0
                      /\ row.estado = "exitoso" <=> side.errores = <<>>
                      /\ row.errores.null <=> side.errores = <<>>
                      /\ row.errores.joined = side.errores
                      /\ row.documentos_nuevos = side.nuevas
                      /\ row.documentos_actualizados = side.actualizadas

\* C11 witness: a request answered 200 whose outgoing side inserted one row and
\* recorded one error wrote a 'parcial' audit row, and its incoming side,
\* without errors, an 'exitoso' one.
C11_Witness ==
    \E p \in Invocations :
        /\ Done(p) /\ inv[p].res.status = 200
        /\ inv[p].res.emitidas.nuevas = 1
        /\ Len(inv[p].res.emitidas.errores) = 1
        /\ inv[p].res.recibidas.errores = <<>>
        /\ Len(Written(p)) = 2
        /\ Written(p)[1].tipo_sync = EMITIDAS /\ Written(p)[1].estado = "parcial"
        /\ Written(p)[2].tipo_sync = RECIBIDAS /\ Written(p)[2].estado = "exitoso"

\* The documents a reconciliation summary accounts for.
Accounted(r) == r.nuevos + r.actualizados + Len(r.errores)

\* C12: when a reconciliation run returns, nuevos + actualizados + the number
\* of error strings equals the number of documents of its batch; a response of
\* status 200 has total = nuevas + actualizadas + |errores| on both sides;
\* and an insert that fails adds one error string, of the document's folio,
\* increments neither nuevos nor actualizados and adds no row.
C12_EachDocumentAccountedOnce ==
    [][\A p \in Invocations :
         LET l == inv[p]
             m == inv'[p]
         IN  /\ (l.pc \in {"procesar", "escribir"} /\ m.pc = "registrarSync") =>
                    /\ Accounted(m.cur) = Len(Batch(l))
                    /\ IF l.tabla = EMITIDAS
                       THEN m.resultadoEmitidas = m.cur
                       ELSE m.resultadoRecibidas = m.cur
             /\ (l.pc = "responder" /\ m.pc = "done") =>
                    /\ m.res.status = 200
                    /\ m.res.emitidas.total = Len(l.ventas)
                    /\ m.res.recibidas.total = Len(l.compras)
                    /\ m.res.emitidas.total = m.res.emitidas.nuevas
                          + m.res.emitidas.actualizadas + Len(m.res.emitidas.errores)
                    /\ m.res.recibidas.total = m.res.recibidas.nuevas
                          + m.res.recibidas.actualizadas + Len(m.res.recibidas.errores)
             /\ (l.pc = "escribir" /\ m # l /\ l.existe.data = NoId
                   /\ facturas'[l.tabla] = facturas[l.tabla]) =>
                    /\ Len(m.cur.errores) = Len(l.cur.errores) + 1
                    /\ m.cur.errores[Len(m.cur.errores)].folio = Batch(l)[l.i].folio
                    /\ m.cur.nuevos = l.cur.nuevos
                    /\ m.cur.actualizados = l.cur.actualizados
             /\ (l.pc = "escribir" /\ m # l /\ l.existe.data = NoId
                   /\ facturas'[l.tabla] # facturas[l.tabla]) =>
                    /\ m.cur.errores = l.cur.errores
                    /\ m.cur.nuevos = l.cur.nuevos + 1
                    /\ m.cur.actualizados = l.cur.actualizados]_vars

\* C12 witness: a response of status 200 to two outgoing documents of one
\* folio, of which the first was inserted and the second, its lookup having
\* found no row, was refused by the insert: one new row and one error string.
C12_Witness ==
    \E p \in Invocations :
        /\ Done(p) /\ inv[p].res.status = 200
        /\ inv[p].res.emitidas.total = 2
        /\ inv[p].res.emitidas.nuevas = 1
        /\ inv[p].res.emitidas.actualizadas = 0
        /\ Len(inv[p].res.emitidas.errores) = 1
        /\ inv[p].res.emitidas.errores[1].message \in {MSG_INSERT, MSG_DUPLICATE}

====
